---- MODULE Spec2Model ----
(***************************************************************************)
(* Field resolvers of the discount GraphQL types                           *)
(* (saleor/graphql/discount/types.py): Sale, Voucher and OrderDiscount.    *)
(*                                                                         *)
(* One behaviour is one GraphQL request.  Init fixes the requester's       *)
(* permissions, the channel-listing tables and the ChannelContext root the *)
(* request resolves fields of; every resolver is one action; the           *)
(* request-scoped dataloaders are dispatched by the Dispatch action.       *)
(***************************************************************************)
EXTENDS Integers, FiniteSets, Sequences, TLC

\* ------------------------------------------------------------------ bounds
\* Field resolutions (resolver calls) per request.
MaxResolves == 2

\* ------------------------------------------------------------ value domains
Ids == {1, 2}
Channels == {"c1", "c2"}
\* Python's None, as a channel_slug / reason value.
None == "<None>"
\* root.channel_slug: None, the empty string, or a channel's slug.
Slugs == {None, ""} \cup Channels
\* OrderDiscount.reason is a nullable text column.
Reasons == {None, "", "damaged"}
Types == {"Sale", "Voucher"}

MANAGE_DISCOUNTS == "MANAGE_DISCOUNTS"
MANAGE_ORDERS == "MANAGE_ORDERS"
Permissions == {MANAGE_DISCOUNTS, MANAGE_ORDERS}

SaleChannelListingBySaleIdAndChanneSlugLoader == "SaleChannelListingBySaleIdAndChanneSlugLoader"
SaleChannelListingBySaleIdLoader == "SaleChannelListingBySaleIdLoader"
VoucherChannelListingByVoucherIdAndChanneSlugLoader == "VoucherChannelListingByVoucherIdAndChanneSlugLoader"
VoucherChannelListingByVoucherIdLoader == "VoucherChannelListingByVoucherIdLoader"
Loaders == {SaleChannelListingBySaleIdAndChanneSlugLoader, SaleChannelListingBySaleIdLoader,
            VoucherChannelListingByVoucherIdAndChanneSlugLoader, VoucherChannelListingByVoucherIdLoader}

\* Placeholders of record fields that do not apply.
NA == "n/a"
\* The channel context of a plain queryset (not wrapped in ChannelQsContext).
Unscoped == "<unscoped>"
\* Marks a load whose promise has no .then callback.
NoThen == "<no then>"

VARIABLES
    requester,   \* the permissions the request's user or app holds
    listed,      \* the (id, channel slug) pairs that have a channel listing row
    root,        \* the ChannelContext the request resolves: [id, channel_slug]
    n,           \* resolver calls made so far in this request
    last,        \* the last resolver call: type, field, root, what it returned and did
    loads,       \* <<loader, key>> -> number of load() calls made with it
    cache,       \* <<loader, key>> pairs a loader of this request holds a promise for
    queue,       \* the pairs of cache not fetched yet (the loaders' batch queues)
    fetches,     \* <<loader, key>> -> number of times the key was fetched
    requested    \* <<type, id, channel_slug>> of roots whose channel-dependent field loaded

vars == <<requester, listed, root, n, last, loads, cache, queue, fetches, requested>>

\* ------------------------------------------------------------------- data
\* The rows of the SaleChannelListing / VoucherChannelListing tables.  A row
\* is identified by its type, its sale/voucher id and its channel's slug.
Row(type, id, channel) == [type |-> type, id |-> id, channel |-> channel]
listings == {Row(t, p[1], p[2]) : t \in Types, p \in listed}

\* `not root.channel_slug`: Python's truth value of None and of "" is False.
Falsy(slug) == slug \in {None, ""}

\* ------------------------------------------------- what a resolver returns
\* kind: "None" | "promise" | "connection" | "value" | "PermissionDenied";
\* loader, key, then: the load issued and the attribute its .then reads;
\* qs, ctx: the related queryset read and its channel context;
\* text: a plain value returned.
Outcome(kind, loader, key, then, qs, ctx, text) ==
    [kind |-> kind, loader |-> loader, key |-> key, then |-> then,
     qs |-> qs, ctx |-> ctx, text |-> text]

ReturnNone == Outcome("None", "", <<>>, "", "", NA, NA)
PermissionDenied == Outcome("PermissionDenied", "", <<>>, "", "", NA, NA)
ReturnValue(text) == Outcome("value", "", <<>>, "", "", NA, text)
LoadThen(loader, key, then) == Outcome("promise", loader, key, then, "", NA, NA)

\* root.node.<relation>.all()
QuerySet(relation) == [qs |-> relation, channel_slug |-> Unscoped]
ChannelQsContext(qs, channel_slug) == [qs |-> qs.qs, channel_slug |-> channel_slug]
create_connection_slice(qs) == Outcome("connection", "", <<>>, "", qs.qs, qs.channel_slug, NA)

\* @permission_required(perm): the check runs first; the body's result (and
\* with it everything the body does) exists only when the check passes.
permission_required(perm, requestor, result) ==
    IF perm \in requestor THEN result ELSE PermissionDenied

\* --------------------------------------------------------------- resolvers
\* r is the resolver's root, requestor the permissions of info.context's
\* user or app.

\* Sale ---------------------------------------------------------------------
\* Mutant: decorated like the sibling relation fields.
Sale_resolve_categories_Guarded(r) ==
    permission_required(MANAGE_DISCOUNTS, requester,
        create_connection_slice(QuerySet("categories")))

Sale_resolve_categories(r) ==
    create_connection_slice(QuerySet("categories"))

\* Mutant: guarded on the channel like the channel-dependent fields.
Sale_resolve_channel_listings_ChannelGuard(r, requestor) ==
    permission_required(MANAGE_DISCOUNTS, requestor,
        IF Falsy(r.channel_slug)
        THEN ReturnNone
        ELSE LoadThen(SaleChannelListingBySaleIdLoader, <<r.id>>, NoThen))

Sale_resolve_channel_listings(r, requestor) ==
    permission_required(MANAGE_DISCOUNTS, requestor,
        LoadThen(SaleChannelListingBySaleIdLoader, <<r.id>>, NoThen))

Sale_resolve_collections(r, requestor) ==
    permission_required(MANAGE_DISCOUNTS, requestor,
        create_connection_slice(ChannelQsContext(QuerySet("collections"), r.channel_slug)))

Sale_resolve_products(r, requestor) ==
    permission_required(MANAGE_DISCOUNTS, requestor,
        create_connection_slice(ChannelQsContext(QuerySet("products"), r.channel_slug)))

Sale_resolve_variants(r, requestor) ==
    permission_required(MANAGE_DISCOUNTS, requestor,
        create_connection_slice(ChannelQsContext(QuerySet("variants"), r.channel_slug)))

\* Mutant: the .then callback reads the wrong attribute.
Sale_resolve_discount_value_ReadsCurrency(r) ==
    IF Falsy(r.channel_slug)
    THEN ReturnNone
    ELSE LoadThen(SaleChannelListingBySaleIdAndChanneSlugLoader,
                  <<r.id, r.channel_slug>>, "currency")

Sale_resolve_discount_value(r) ==
    IF Falsy(r.channel_slug)
    THEN ReturnNone
    ELSE LoadThen(SaleChannelListingBySaleIdAndChanneSlugLoader,
                  <<r.id, r.channel_slug>>, "discount_value")

Sale_resolve_currency(r) ==
    IF Falsy(r.channel_slug)
    THEN ReturnNone
    ELSE LoadThen(SaleChannelListingBySaleIdAndChanneSlugLoader,
                  <<r.id, r.channel_slug>>, "currency")

\* Voucher ------------------------------------------------------------------
Voucher_resolve_categories(r) ==
    create_connection_slice(QuerySet("categories"))

Voucher_resolve_collections(r, requestor) ==
    permission_required(MANAGE_DISCOUNTS, requestor,
        create_connection_slice(ChannelQsContext(QuerySet("collections"), r.channel_slug)))

\* Mutant: the queryset is not wrapped in ChannelQsContext.
Voucher_resolve_products_PlainQuerySet(r, requestor) ==
    permission_required(MANAGE_DISCOUNTS, requestor,
        create_connection_slice(QuerySet("products")))

Voucher_resolve_products(r, requestor) ==
    permission_required(MANAGE_DISCOUNTS, requestor,
        create_connection_slice(ChannelQsContext(QuerySet("products"), r.channel_slug)))

\* Mutant: the @permission_required decorator is missing.
Voucher_resolve_variants_Undecorated(r, requestor) ==
    create_connection_slice(ChannelQsContext(QuerySet("variants"), r.channel_slug))

Voucher_resolve_variants(r, requestor) ==
    permission_required(MANAGE_DISCOUNTS, requestor,
        create_connection_slice(ChannelQsContext(QuerySet("variants"), r.channel_slug)))

Voucher_resolve_discount_value(r) ==
    IF Falsy(r.channel_slug)
    THEN ReturnNone
    ELSE LoadThen(VoucherChannelListingByVoucherIdAndChanneSlugLoader,
                  <<r.id, r.channel_slug>>, "discount_value")

\* Mutant: copied from Sale with the loader left unchanged.
Voucher_resolve_currency_SaleLoader(r) ==
    IF Falsy(r.channel_slug)
    THEN ReturnNone
    ELSE LoadThen(SaleChannelListingBySaleIdAndChanneSlugLoader,
                  <<r.id, r.channel_slug>>, "currency")

Voucher_resolve_currency(r) ==
    IF Falsy(r.channel_slug)
    THEN ReturnNone
    ELSE LoadThen(VoucherChannelListingByVoucherIdAndChanneSlugLoader,
                  <<r.id, r.channel_slug>>, "currency")

\* Mutant: the guard tests `is None` instead of the truth value.
Voucher_resolve_min_spent_IsNoneGuard(r) ==
    IF r.channel_slug = None
    THEN ReturnNone
    ELSE LoadThen(VoucherChannelListingByVoucherIdAndChanneSlugLoader,
                  <<r.id, r.channel_slug>>, "min_spent")

Voucher_resolve_min_spent(r) ==
    IF Falsy(r.channel_slug)
    THEN ReturnNone
    ELSE LoadThen(VoucherChannelListingByVoucherIdAndChanneSlugLoader,
                  <<r.id, r.channel_slug>>, "min_spent")

Voucher_resolve_channel_listings(r, requestor) ==
    permission_required(MANAGE_DISCOUNTS, requestor,
        LoadThen(VoucherChannelListingByVoucherIdLoader, <<r.id>>, NoThen))

\* OrderDiscount ------------------------------------------------------------
\* Mutant: decorated with the discount permission, like the resolvers above it.
OrderDiscount_resolve_reason_ManageDiscounts(r, requestor) ==
    permission_required(MANAGE_DISCOUNTS, requestor, ReturnValue(r.reason))

OrderDiscount_resolve_reason(r, requestor) ==
    permission_required(MANAGE_ORDERS, requestor, ReturnValue(r.reason))

\* ------------------------------------------------------------- dataloaders
\* What a loader's batch fetches for one key: the rows of its table that the
\* key selects.  The ...AndChanneSlugLoader's key is (id, channel slug) and
\* selects at most one row (none: the loader yields None); the ...IdLoader's
\* key is the id alone and selects the rows of that object in every channel.
batch_load(loader, key) ==
    CASE loader = SaleChannelListingBySaleIdAndChanneSlugLoader ->
           {l \in listings : l.type = "Sale" /\ l.id = key[1] /\ l.channel = key[2]}
      [] loader = VoucherChannelListingByVoucherIdAndChanneSlugLoader ->
           {l \in listings : l.type = "Voucher" /\ l.id = key[1] /\ l.channel = key[2]}
      [] loader = SaleChannelListingBySaleIdLoader ->
           {l \in listings : l.type = "Sale" /\ l.id = key[1]}
      [] loader = VoucherChannelListingByVoucherIdLoader ->
           {l \in listings : l.type = "Voucher" /\ l.id = key[1]}

\* What a field finally resolves to.  kind "None": None; "attr": the
\* attribute attr of the one row in rows; "list": the list of the rows;
\* "pending": a promise not settled yet; "n/a": the call returned no promise.
Value(kind, attr, rows) == [kind |-> kind, attr |-> attr, rows |-> rows]
Pending == Value("pending", "", {})
NoPromise == Value(NA, "", {})

\* .then(lambda channel_listing: channel_listing.<attr> if channel_listing else None)
then_attribute(attr, channel_listing) ==
    IF channel_listing # {} THEN Value("attr", attr, channel_listing) ELSE Value("None", "", {})

\* The value the promise of outcome out settles to once its key is fetched.
Settle(out) ==
    IF out.then = NoThen
    THEN Value("list", "", batch_load(out.loader, out.key))
    ELSE then_attribute(out.then, batch_load(out.loader, out.key))

\* The counter function f with every element of keys counted once more.
Count(f, keys) ==
    [e \in DOMAIN f \cup keys |->
        (IF e \in DOMAIN f THEN f[e] ELSE 0) + (IF e \in keys THEN 1 ELSE 0)]

\* DataLoader.load(key) on the request's instance of the loader: a key seen
\* before returns the cached promise, a new key joins the batch queue.
Load(loader, key) ==
    /\ loads' = Count(loads, {<<loader, key>>})
    /\ IF <<loader, key>> \in cache
       THEN UNCHANGED <<cache, queue>>
       ELSE /\ cache' = cache \cup {<<loader, key>>}
            /\ queue' = queue \cup {<<loader, key>>}

ChannelFields == {"discount_value", "currency", "min_spent"}

\* ----------------------------------------------------------------- actions
NoCall == [type |-> NA, field |-> NA, root |-> [id |-> 0, channel_slug |-> NA],
           out |-> ReturnNone, value |-> NoPromise]

\* The GraphQL executor calls a resolver of `type` for `field` on root r;
\* out is what the resolver returned and did.
Invoke(type, field, r, out) ==
    /\ n < MaxResolves
    /\ n' = n + 1
    /\ IF out.kind = "promise"
       THEN /\ Load(out.loader, out.key)
            /\ requested' = IF field \in ChannelFields
                            THEN requested \cup {<<type, r.id, r.channel_slug>>}
                            ELSE requested
       ELSE UNCHANGED <<loads, cache, queue, requested>>
    /\ last' = [type |-> type, field |-> field, root |-> r, out |-> out,
                value |-> IF out.kind # "promise" THEN NoPromise
                          ELSE IF <<out.loader, out.key>> \in cache \ queue
                               THEN Settle(out)
                               ELSE Pending]
    /\ UNCHANGED <<requester, listed, root, fetches>>

SaleResolveCategories == Invoke("Sale", "categories", root, Sale_resolve_categories(root))
SaleResolveChannelListings ==
    Invoke("Sale", "channel_listings", root, Sale_resolve_channel_listings(root, requester))
SaleResolveCollections ==
    Invoke("Sale", "collections", root, Sale_resolve_collections(root, requester))
SaleResolveProducts == Invoke("Sale", "products", root, Sale_resolve_products(root, requester))
SaleResolveVariants == Invoke("Sale", "variants", root, Sale_resolve_variants(root, requester))
SaleResolveDiscountValue ==
    Invoke("Sale", "discount_value", root, Sale_resolve_discount_value(root))
SaleResolveCurrency == Invoke("Sale", "currency", root, Sale_resolve_currency(root))

VoucherResolveCategories ==
    Invoke("Voucher", "categories", root, Voucher_resolve_categories(root))
VoucherResolveCollections ==
    Invoke("Voucher", "collections", root, Voucher_resolve_collections(root, requester))
VoucherResolveProducts ==
    Invoke("Voucher", "products", root, Voucher_resolve_products(root, requester))
VoucherResolveVariants ==
    Invoke("Voucher", "variants", root, Voucher_resolve_variants(root, requester))
VoucherResolveDiscountValue ==
    Invoke("Voucher", "discount_value", root, Voucher_resolve_discount_value(root))
VoucherResolveCurrency == Invoke("Voucher", "currency", root, Voucher_resolve_currency(root))
VoucherResolveMinSpent == Invoke("Voucher", "min_spent", root, Voucher_resolve_min_spent(root))
VoucherResolveChannelListings ==
    Invoke("Voucher", "channel_listings", root, Voucher_resolve_channel_listings(root, requester))

\* The root of OrderDiscount.reason is the order discount row itself.
OrderDiscountResolveReason ==
    \E r \in [id : Ids, reason : Reasons] :
        Invoke("OrderDiscount", "reason", r, OrderDiscount_resolve_reason(r, requester))

\* The promise scheduler dispatches the batch queue of one loader: every
\* queued key is fetched, and the promises waiting on those keys settle.
Dispatch(loader) ==
    LET keys == {e \in queue : e[1] = loader} IN
    /\ keys # {}
    /\ queue' = queue \ keys
    /\ fetches' = Count(fetches, keys)
    /\ last' = IF last.value = Pending /\ <<last.out.loader, last.out.key>> \in keys
               THEN [last EXCEPT !.value = Settle(last.out)]
               ELSE last
    /\ UNCHANGED <<requester, listed, root, n, loads, cache, requested>>

Init ==
    /\ requester \in SUBSET Permissions
    /\ listed \in SUBSET (Ids \X Channels)
    /\ root \in [id : Ids, channel_slug : Slugs]
    /\ n = 0
    /\ last = NoCall
    /\ loads = << >>
    /\ cache = {}
    /\ queue = {}
    /\ fetches = << >>
    /\ requested = {}

Next ==
    \/ SaleResolveCategories
    \/ SaleResolveChannelListings
    \/ SaleResolveCollections
    \/ SaleResolveProducts
    \/ SaleResolveVariants
    \/ SaleResolveDiscountValue
    \/ SaleResolveCurrency
    \/ VoucherResolveCategories
    \/ VoucherResolveCollections
    \/ VoucherResolveProducts
    \/ VoucherResolveVariants
    \/ VoucherResolveDiscountValue
    \/ VoucherResolveCurrency
    \/ VoucherResolveMinSpent
    \/ VoucherResolveChannelListings
    \/ OrderDiscountResolveReason
    \/ \E loader \in Loaders : Dispatch(loader)

Spec == Init /\ [][Next]_vars

\* ================================================================== claims
\* Helpers of the claims' formulas.
AndSlugLoader(type) ==
    IF type = "Sale" THEN SaleChannelListingBySaleIdAndChanneSlugLoader
    ELSE VoucherChannelListingByVoucherIdAndChanneSlugLoader
ByIdLoader(type) ==
    IF type = "Sale" THEN SaleChannelListingBySaleIdLoader
    ELSE VoucherChannelListingByVoucherIdLoader
AndSlugLoaders == {AndSlugLoader(t) : t \in Types}
ByIdLoaders == {ByIdLoader(t) : t \in Types}
GuardedFields == {"channel_listings", "collections", "products", "variants"}
\* The last call was a channel-dependent field of a Sale or a Voucher.
LastIsChannelField ==
    /\ last.type \in Types
    /\ last.field \in ChannelFields
    /\ (last.field = "min_spent" => last.type = "Voucher")

\* C1: with an absent channel context (channel_slug None or "") the
\* channel-dependent fields of Sale and Voucher return None and no load is
\* issued on a by-id-and-channel-slug loader: the call names no loader, and
\* the request's loaders of that kind hold no key and count no load() call.
C1_AbsentChannelReturnsNone ==
    (LastIsChannelField /\ Falsy(last.root.channel_slug)) =>
        /\ last.out = ReturnNone
        /\ last.value = NoPromise
        /\ \A e \in cache \cup DOMAIN loads : e[1] \notin AndSlugLoaders

C1_Witness ==
    /\ last.type = "Voucher" /\ last.field = "min_spent"
    /\ last.root.channel_slug = ""
    /\ last.out.kind = "None"
    /\ n = 2

\* C2: channel_listings, collections, products and variants of Sale and
\* Voucher are resolved only for a requester holding MANAGE_DISCOUNTS; for
\* any other requester, whatever the root and its channel_slug, the outcome
\* is the permission error, no queryset is read, no loader is invoked.
C2_GuardedFieldsNeedManageDiscounts ==
    (last.type \in Types /\ last.field \in GuardedFields) =>
        IF MANAGE_DISCOUNTS \in requester
        THEN last.out.kind \in {"promise", "connection"}
        ELSE /\ last.out = PermissionDenied
             /\ last.out.qs = "" /\ last.out.loader = ""
             /\ last.value = NoPromise
             /\ \A e \in cache \cup DOMAIN loads : e[1] \notin ByIdLoaders

C2_Witness ==
    /\ last.type = "Voucher" /\ last.field = "variants"
    /\ requester = {MANAGE_ORDERS}
    /\ last.root.channel_slug \in Channels
    /\ last.out.kind = "PermissionDenied"

\* C3: OrderDiscount.reason is returned only to a requester holding
\* MANAGE_ORDERS (MANAGE_DISCOUNTS does not do): with it the resolver returns
\* exactly the stored reason, without it the permission error and no reason.
C3_ReasonNeedsManageOrders ==
    (last.type = "OrderDiscount" /\ last.field = "reason") =>
        IF MANAGE_ORDERS \in requester
        THEN last.out = ReturnValue(last.root.reason)
        ELSE last.out = PermissionDenied /\ last.out.text = NA

C3_Witness ==
    /\ last.type = "OrderDiscount" /\ last.field = "reason"
    /\ requester = {MANAGE_DISCOUNTS}
    /\ last.root.reason = "damaged"
    /\ last.out.kind = "PermissionDenied"

\* C4: every load of a channel-dependent field uses the type's one
\* by-id-and-channel-slug loader with the key (root.node.id, root.channel_slug);
\* so each key such a loader fetched was fetched once, however many load()
\* calls named it, and is the (id, channel_slug) pair of a root whose field
\* was resolved.
C4_OneLoaderOneKey ==
    /\ (LastIsChannelField /\ last.out.kind = "promise") =>
          /\ last.out.loader = AndSlugLoader(last.type)
          /\ last.out.key = <<last.root.id, last.root.channel_slug>>
    /\ \A t \in Types : \A e \in DOMAIN loads \cup DOMAIN fetches :
          e[1] = AndSlugLoader(t) =>
              /\ Len(e[2]) = 2
              /\ <<t, e[2][1], e[2][2]>> \in requested
              /\ e \in DOMAIN fetches => fetches[e] = 1
    /\ Cardinality({e \in DOMAIN loads \cup DOMAIN fetches : e[1] \in AndSlugLoaders})
          <= Cardinality(requested)

\* Two channel-dependent fields of one Voucher were resolved, and the pair
\* was fetched once.
C4_Witness ==
    LET e == <<VoucherChannelListingByVoucherIdAndChanneSlugLoader,
               <<root.id, root.channel_slug>>>> IN
    /\ last.type = "Voucher" /\ last.field = "min_spent"
    /\ e \in DOMAIN loads /\ loads[e] = 2
    /\ e \in DOMAIN fetches /\ fetches[e] = 1
    /\ last.value.kind = "attr"

\* The value a channel-dependent field of the last call's root is due.
C5_ExpectedValue ==
    LET own == Row(last.type, last.root.id, last.root.channel_slug) IN
    IF own \in listings THEN Value("attr", last.field, {own}) ELSE Value("None", "", {})

\* C5: with a non-empty channel_slug c a channel-dependent field resolves,
\* for every requester, to its own attribute of the listing of exactly
\* (root.node.id, c) when that row exists and to None when it does not,
\* whatever other rows exist.
C5_ChannelFieldValue ==
    (LastIsChannelField /\ ~Falsy(last.root.channel_slug)) =>
        /\ last.out.kind = "promise"
        /\ last.value \in {Pending, C5_ExpectedValue}

\* A requester with no permission reads the discount value of sale 1 in
\* channel c1 while every other (id, channel) pair has a listing too.
C5_Witness ==
    /\ last.type = "Sale" /\ last.field = "discount_value"
    /\ requester = {}
    /\ last.root = [id |-> 1, channel_slug |-> "c1"]
    /\ listed = Ids \X Channels
    /\ last.value = Value("attr", "discount_value", {Row("Sale", 1, "c1")})

\* C6: categories of Sale and Voucher is resolved for every requester, with
\* no permission check, while the sibling relations collections, products
\* and variants are refused to a requester without MANAGE_DISCOUNTS.
C6_CategoriesUnguarded ==
    /\ (last.type \in Types /\ last.field = "categories") =>
          last.out.kind = "connection" /\ last.out.qs = "categories"
    /\ (/\ last.type \in Types
        /\ last.field \in {"collections", "products", "variants"}
        /\ MANAGE_DISCOUNTS \notin requester) =>
          last.out.kind = "PermissionDenied"

C6_Witness ==
    /\ last.type = "Sale" /\ last.field = "categories"
    /\ requester = {}
    /\ last.out.kind = "connection"

\* C7: for a permitted requester the collections, products and variants
\* connections carry the root's channel_slug unchanged (None included); the
\* categories connection is built from the plain queryset, without channel
\* context.
C7_ConnectionChannelContext ==
    /\ (/\ last.type \in Types
        /\ last.field \in {"collections", "products", "variants"}
        /\ MANAGE_DISCOUNTS \in requester) =>
          /\ last.out.kind = "connection"
          /\ last.out.qs = last.field
          /\ last.out.ctx = last.root.channel_slug
    /\ (last.type \in Types /\ last.field = "categories") =>
          last.out.ctx = Unscoped

C7_Witness ==
    /\ last.type = "Voucher" /\ last.field = "products"
    /\ MANAGE_DISCOUNTS \in requester
    /\ last.root.channel_slug = None
    /\ last.out.ctx = None

\* C8: for a requester holding MANAGE_DISCOUNTS, channel_listings loads by
\* root.node.id alone: it resolves to the object's listings in all channels,
\* the same for every channel_slug of the root, an absent one included.
C8_ChannelListingsById ==
    (/\ last.type \in Types
     /\ last.field = "channel_listings"
     /\ MANAGE_DISCOUNTS \in requester) =>
        /\ last.out.kind = "promise"
        /\ last.out.loader = ByIdLoader(last.type)
        /\ last.out.key = <<last.root.id>>
        /\ last.value \in
             {Pending,
              Value("list", "", {l \in listings : l.type = last.type /\ l.id = last.root.id})}

C8_Witness ==
    /\ last.type = "Sale" /\ last.field = "channel_listings"
    /\ last.root = [id |-> 2, channel_slug |-> None]
    /\ last.value = Value("list", "", {Row("Sale", 2, "c1"), Row("Sale", 2, "c2")})

====
